---------------------------- MODULE Spec2Model ----------------------------
(***************************************************************************)
(* A model of the leetify client library (src/src/types.rs,                *)
(* src/src/client.rs, src/src/error.rs).                                   *)
(*                                                                         *)
(* Text that the code inspects character by character (player ids) is a    *)
(* sequence of characters, each character a one-element token.  Text that  *)
(* the code only compares with literals or copies (data sources, keys,     *)
(* URLs) is a TLA+ string.                                                 *)
(*                                                                         *)
(* The module holds six specifications over one set of variables:          *)
(*   SpecId    Id::from(&str) / Id::from(String)                           *)
(*   SpecDS    DataSource conversions                                      *)
(*   SpecJson  the two fixed-length array decode hooks                     *)
(*   Spec      ClientBuilder, Client and its five operations               *)
(*   SpecBuild ClientBuilder alone, with the arguments its setters got     *)
(*   SpecConc  one Client shared by two call sites                         *)
(***************************************************************************)
EXTENDS Integers, Sequences, FiniteSets, TLC

VARIABLES
    value,      \* SpecId: the raw string handed to Id::from
    id,         \* SpecId: the Id built from it (None before the conversion)
    ds_in,      \* SpecDS: the input of a DataSource conversion
    ds_out,     \* SpecDS: what the conversions produced so far
    json_in,    \* SpecJson: the JSON array handed to a decode hook
    json_out,   \* SpecJson: the hook's result (None before the call)
    builder,    \* Spec: the ClientBuilder being configured (None once consumed)
    client,     \* Spec: the Client (None before construction)
    call,       \* Spec: the operation in progress on the client
    said        \* SpecBuild: the last argument given to each builder setter

vars ==
    <<value, id, ds_in, ds_out, json_in, json_out, builder, client, call, said>>

None == [tag |-> "None"]
Some(x) == [tag |-> "Some", v |-> x]

(***************************************************************************)
(* Characters and strings                                                  *)
(***************************************************************************)

\* One character that is a decimal digit in Unicode but not in ASCII
\* (ARABIC-INDIC DIGIT THREE); it takes two bytes in UTF-8.
ArabicThree == "U+0663"

AsciiDigits == {"0", "1", "2", "3", "4", "5", "6", "7", "8", "9"}

AsciiHexLetters == {"a", "b", "c", "d", "e", "f", "A", "B", "C", "D", "E", "F"}

\* char::is_ascii_digit
is_ascii_digit(c) == c \in AsciiDigits

\* char::is_ascii_hexdigit
is_ascii_hexdigit(c) == c \in AsciiDigits \cup AsciiHexLetters

\* The number of bytes of one character in UTF-8.
Utf8Len(c) == IF c = ArabicThree THEN 2 ELSE 1

\* str::len: the length in bytes, not in characters.
RECURSIVE str_len(_)
str_len(s) == IF s = <<>> THEN 0 ELSE Utf8Len(Head(s)) + str_len(Tail(s))

\* value.chars().all(|c| c.is_ascii_digit())
all_ascii_digit(s) == \A i \in 1..Len(s) : is_ascii_digit(s[i])

\* part.chars().all(|c| c.is_ascii_hexdigit())
all_ascii_hexdigit(s) == \A i \in 1..Len(s) : is_ascii_hexdigit(s[i])

\* str::to_string / String::as_str: a copy of the same characters.
to_string(s) == [i \in 1..Len(s) |-> s[i]]

\* str::split('-').collect(): the segments between hyphens; a string with
\* no hyphen (the empty string too) is one segment.
RECURSIVE split_hyphen(_)
split_hyphen(s) ==
    IF \A i \in 1..Len(s) : s[i] # "-"
    THEN <<s>>
    ELSE LET i == CHOOSE k \in 1..Len(s) :
                      s[k] = "-" /\ \A j \in 1..(k - 1) : s[j] # "-"
         IN  <<SubSeq(s, 1, i - 1)>> \o split_hyphen(SubSeq(s, i + 1, Len(s)))

(***************************************************************************)
(* Player identifiers (types.rs)                                           *)
(***************************************************************************)

Steam64Id(s) == [variant |-> "Steam64", s |-> s]

LeetifyId(s) == [variant |-> "Leetify", s |-> s]

\* The segment lengths of is_uuid_format.
UuidLengths == <<8, 4, 4, 4, 12>>

\* The number of segments is_uuid_format asks for.
UuidParts == 5

\* The least length of a digit string taken for a Steam64 id.
Steam64MinLen == 15

is_uuid_format(s) ==
    LET parts == split_hyphen(s)
    IN  IF Len(parts) # UuidParts
        THEN FALSE
        ELSE \A k \in 1..UuidParts :
                 /\ str_len(parts[k]) = UuidLengths[k]
                 /\ all_ascii_hexdigit(parts[k])

\* A slip in the length test: > where the code has >=.
IdFromStrStrict(v) ==
    IF is_uuid_format(v)
    THEN LeetifyId(to_string(v))
    ELSE IF all_ascii_digit(v) /\ str_len(v) > Steam64MinLen
         THEN Steam64Id(to_string(v))
         ELSE LeetifyId(to_string(v))

\* A slip in the fallback branch: the input is rejected (an empty id) where
\* the code wraps it.
IdFromStrDropping(v) ==
    IF is_uuid_format(v)
    THEN LeetifyId(to_string(v))
    ELSE IF all_ascii_digit(v) /\ str_len(v) >= Steam64MinLen
         THEN Steam64Id(to_string(v))
         ELSE LeetifyId(<<>>)

\* impl From<&str> for Id
IdFromStr(v) ==
    IF is_uuid_format(v)
    THEN LeetifyId(to_string(v))
    ELSE IF all_ascii_digit(v) /\ str_len(v) >= Steam64MinLen
         THEN Steam64Id(to_string(v))
         ELSE LeetifyId(to_string(v))

\* impl From<String> for Id: value.as_str().into()
IdFromString(v) == IdFromStr(to_string(v))


(***************************************************************************)
(* SpecId: the raw strings tried and the conversions                       *)
(***************************************************************************)

\* The ids of the tests of client.rs (test_player_id_conversion,
\* test_leetify_id_conversion).
TestSteam64 ==
    <<"7", "6", "5", "6", "1", "1", "9", "8", "2", "8", "3", "4", "3", "1",
      "5", "5", "5">>

TestUuid ==
    <<"5", "e", "a", "0", "7", "2", "8", "0", "-", "2", "3", "9", "9", "-",
      "4", "c", "7", "e", "-", "8", "8", "a", "b", "-", "f", "2", "f", "7",
      "d", "b", "0", "c", "4", "4", "9", "f">>

TestZeroUuid ==
    <<"0", "0", "0", "0", "0", "0", "0", "0", "-", "0", "0", "0", "0", "-",
      "0", "0", "0", "0", "-", "0", "0", "0", "0", "-", "0", "0", "0", "0",
      "0", "0", "0", "0", "0", "0", "0", "0">>

TestUpperUuid ==
    <<"5", "E", "A", "0", "7", "2", "8", "0", "-", "2", "3", "9", "9", "-",
      "4", "C", "7", "E", "-", "8", "8", "A", "B", "-", "F", "2", "F", "7",
      "D", "B", "0", "C", "4", "4", "9", "F">>

TestUserId ==
    <<"u", "s", "e", "r", "-", "1", "2", "3">>

\* Whole strings of every length up to this are tried.
MaxShortLen == 2

\* Digit strings of every length up to this are tried.
MaxDigitLen == 18

\* The characters that edits put in and short strings are made of: a digit,
\* a lower-case and an upper-case hex letter, a letter that is no hex digit,
\* the separator, and a digit outside ASCII.
EditChars == {"0", "a", "F", "g", "-", ArabicThree}

Templates == {TestSteam64, TestUuid, TestZeroUuid, TestUpperUuid, TestUserId}

ReplaceAt(s, i, c) == [s EXCEPT ![i] = c]

DeleteAt(s, i) == SubSeq(s, 1, i - 1) \o SubSeq(s, i + 1, Len(s))

InsertAt(s, i, c) == SubSeq(s, 1, i - 1) \o <<c>> \o SubSeq(s, i, Len(s))

Repeat(c, n) == [i \in 1..n |-> c]

\* Every string of characters of A of length at most n.
StringsUpTo(A, n) == UNION {[1..k -> A] : k \in 0..n}

\* The raw strings: the templates, every template with one character
\* replaced, removed or put in, every short string, and digit strings of
\* every length around the Steam64 threshold.
IdInputs ==
    Templates
    \cup {ReplaceAt(t, i, c) : <<t, i, c>> \in
             {x \in Templates \X (1..36) \X EditChars : x[2] <= Len(x[1])}}
    \cup {DeleteAt(t, i) : <<t, i>> \in
             {x \in Templates \X (1..36) : x[2] <= Len(x[1])}}
    \cup {InsertAt(t, i, c) : <<t, i, c>> \in
             {x \in Templates \X (1..37) \X EditChars : x[2] <= Len(x[1]) + 1}}
    \cup StringsUpTo(EditChars, MaxShortLen)
    \cup {Repeat(c, n) : <<c, n>> \in {"7", ArabicThree} \X (0..MaxDigitLen)}

InitId ==
    /\ value \in IdInputs
    /\ id = None
    /\ ds_in = None /\ ds_out = None
    /\ json_in = None /\ json_out = None
    /\ builder = None /\ client = None /\ call = None /\ said = None

NotId ==
    UNCHANGED <<ds_in, ds_out, json_in, json_out, builder, client, call, said>>

\* let id: Id = value.into()   with value: &str
ConvertStr ==
    /\ id = None
    /\ id' = [tag |-> "Some", v |-> IdFromStr(value), via |-> "&str"]
    /\ UNCHANGED value
    /\ NotId

\* let id: Id = value.into()   with value: String
ConvertString ==
    /\ id = None
    /\ id' = [tag |-> "Some", v |-> IdFromString(value), via |-> "String"]
    /\ UNCHANGED value
    /\ NotId

\* Id::Steam64(value.into()): the variant is the caller's choice.
ExplicitSteam64 ==
    /\ id = None
    /\ id' = [tag |-> "Some", v |-> Steam64Id(to_string(value)),
              via |-> "Steam64Id"]
    /\ UNCHANGED value
    /\ NotId

\* Id::Leetify(value.into()): the variant is the caller's choice.
ExplicitLeetify ==
    /\ id = None
    /\ id' = [tag |-> "Some", v |-> LeetifyId(to_string(value)),
              via |-> "LeetifyId"]
    /\ UNCHANGED value
    /\ NotId

NextId == ConvertStr \/ ConvertString \/ ExplicitSteam64 \/ ExplicitLeetify

SpecId == InitId /\ [][NextId]_vars

(***************************************************************************)
(* Claims about identifier classification, checked under SpecId            *)
(***************************************************************************)

\* The conversion from a raw string has run (either From<&str> or
\* From<String>).
Classified == id.tag = "Some" /\ id.via \in {"&str", "String"}

\* The string consists only of ASCII digits and has length >= 15.
DigitOnlyLong(s) == Len(s) >= 15 /\ \A i \in 1..Len(s) : s[i] \in AsciiDigits

\* The string is 36 characters, hyphens at positions 9, 14, 19 and 24 and
\* hex digits of either case everywhere else: the 8-4-4-4-12 pattern.
UuidShaped(s) ==
    /\ Len(s) = 36
    /\ \A i \in 1..Len(s) :
           IF i \in {9, 14, 19, 24}
           THEN s[i] = "-"
           ELSE s[i] \in AsciiDigits \cup AsciiHexLetters

\* The classification with the two tests in the other order.
DigitsFirst(s) ==
    IF DigitOnlyLong(s) THEN Steam64Id(s)
    ELSE IF UuidShaped(s) THEN LeetifyId(s)
    ELSE LeetifyId(s)

\* C1: a digit-only string of length >= 15 becomes the Steam64 variant, a
\* string of the 8-4-4-4-12 hex pattern becomes the Leetify variant, no
\* string is both, and testing for digits first gives the same Id.
C1_Classification ==
    Classified =>
        /\ DigitOnlyLong(value) => id.v.variant = "Steam64"
        /\ UuidShaped(value) => id.v.variant = "Leetify"
        /\ ~(DigitOnlyLong(value) /\ UuidShaped(value))
        /\ id.v = DigitsFirst(value)

\* A digit string of exactly 15 characters was converted into Steam64.
C1_Witness ==
    /\ Classified
    /\ DigitOnlyLong(value) /\ Len(value) = 15
    /\ id.v.variant = "Steam64"

\* C2: the conversion always yields one of the two variants; a string that
\* is neither UUID-shaped nor digit-only with length >= 15 becomes the
\* Leetify variant; the wrapped string is the input, whatever the branch.
C2_TotalFallback ==
    Classified =>
        /\ id.v.variant \in {"Steam64", "Leetify"}
        /\ (~UuidShaped(value) /\ ~DigitOnlyLong(value))
               => id.v.variant = "Leetify"
        /\ id.v.s = value

\* A digit string of 14 characters was converted into the Leetify variant.
C2_Witness ==
    /\ Classified
    /\ Len(value) = 14 /\ \A i \in 1..Len(value) : value[i] \in AsciiDigits
    /\ id.v = LeetifyId(value)

(***************************************************************************)
(* Data sources (types.rs)                                                 *)
(***************************************************************************)

FACEIT == [variant |-> "FACEIT"]

Matchmaking == [variant |-> "Matchmaking"]

Other(s) == [variant |-> "Other", s |-> s]

\* A Result: Ok(v) or Err(e).
Ok(v) == [tag |-> "Ok", v |-> v]

Err(e) == [tag |-> "Err", e |-> e]

\* JSON values as far as a decoder tells them apart.
JsonString(s) == [t |-> "string", s |-> s]

JsonNull == [t |-> "null"]

JsonNumber(n) == [t |-> "number", n |-> n]

\* A number literal above u32::MAX (4294967296, say).
JsonBigNumber == [t |-> "number above u32::MAX"]

JsonArray(a) == [t |-> "array", a |-> a]

\* o maps the names of the object's fields to their values.
JsonObject(o) == [t |-> "object", o |-> o]

\* serde::de::Error::invalid_type
InvalidType(got, expected) ==
    [kind |-> "invalid type", got |-> got, expected |-> expected]

\* serde::de::Error::invalid_value
InvalidValue(expected) == [kind |-> "invalid value", expected |-> expected]

\* serde::de::Error::missing_field
MissingField(name) == [kind |-> "missing field", field |-> name]

\* serde::de::Error::invalid_length
InvalidLength(len, expected) ==
    [kind |-> "invalid length", len |-> len, expected |-> expected]

\* serde::de::Error::custom
Custom(msg) == [kind |-> "custom", msg |-> msg]

\* The thread panicked (an index out of bounds, an expect on an Err).
Panic(msg) == [tag |-> "Panic", msg |-> msg]

\* A slip in as_str: the variant's Rust name where the code has the
\* lower-case wire name.
as_str_variant_name(d) ==
    CASE d.variant = "FACEIT" -> "FACEIT"
      [] d.variant = "Matchmaking" -> "Matchmaking"
      [] d.variant = "Other" -> d.s

\* DataSource::as_str
as_str(d) ==
    CASE d.variant = "FACEIT" -> "faceit"
      [] d.variant = "Matchmaking" -> "matchmaking"
      [] d.variant = "Other" -> d.s

\* impl From<String> for DataSource
DataSourceFromString(v) ==
    CASE v = "faceit" -> FACEIT
      [] v = "matchmaking" -> Matchmaking
      [] OTHER -> Other(v)

\* A slip in From<&str>: only FACEIT is recognised.
DataSourceFromStrOneArm(v) ==
    CASE v = "faceit" -> FACEIT
      [] OTHER -> Other(v)

\* impl From<&str> for DataSource
DataSourceFromStr(v) ==
    CASE v = "faceit" -> FACEIT
      [] v = "matchmaking" -> Matchmaking
      [] OTHER -> Other(v)

\* String::deserialize on a JSON value: a JSON string gives its content,
\* anything else is an invalid-type error.
StringDeserialize(j) ==
    IF j.t = "string" THEN Ok(j.s) ELSE Err(InvalidType(j.t, "a string"))

\* What a derived Deserialize would do: an unknown name is an error.
DataSourceDeserializeClosed(j) ==
    LET s == StringDeserialize(j)
    IN  IF s.tag = "Err" THEN s
        ELSE CASE s.v = "faceit" -> Ok(FACEIT)
               [] s.v = "matchmaking" -> Ok(Matchmaking)
               [] OTHER -> Err([kind |-> "unknown variant", got |-> s.v])

\* impl Deserialize for DataSource
DataSourceDeserialize(j) ==
    LET s == StringDeserialize(j)
    IN  IF s.tag = "Err" THEN s
        ELSE Ok(CASE s.v = "faceit" -> FACEIT
                  [] s.v = "matchmaking" -> Matchmaking
                  [] OTHER -> Other(s.v))

(***************************************************************************)
(* SpecDS: the texts tried and the conversions                             *)
(***************************************************************************)

\* Source names: the two known ones, their other spellings, names of other
\* platforms, the empty string.
SourceNames ==
    {"faceit", "matchmaking", "FACEIT", "Faceit", "Matchmaking",
     "MATCHMAKING", "other", "gamers_club", "renown", ""}

Padding == {"", " "}

\* The texts handed to the conversions: every name, bare and with white
\* space before or after it.
SourceTexts == {p \o n \o q : <<p, n, q>> \in Padding \X SourceNames \X Padding}

\* Every DataSource value over these texts.
DataSourceValues == {FACEIT, Matchmaking} \cup {Other(s) : s \in SourceTexts}

\* ds_in is a text (for the three conversions from text), a JSON value that
\* is no string (for Deserialize), or a DataSource value (for as_str).
InitDS ==
    /\ ds_in \in {[kind |-> "text", s |-> s] : s \in SourceTexts}
            \cup {[kind |-> "json", j |-> j] : j \in {JsonNull, JsonNumber(1)}}
            \cup {[kind |-> "value", d |-> d] : d \in DataSourceValues}
    /\ ds_out = [via |-> "none", d |-> None, text |-> None, back |-> None]
    /\ value = None /\ id = None
    /\ json_in = None /\ json_out = None
    /\ builder = None /\ client = None /\ call = None /\ said = None

NotDS ==
    UNCHANGED <<value, id, json_in, json_out, builder, client, call, said>>

\* let ds: DataSource = s.into()   with s: &str
DSFromStr ==
    /\ ds_in.kind = "text" /\ ds_out.via = "none"
    /\ ds_out' = [ds_out EXCEPT !.via = "&str",
                                !.d = Ok(DataSourceFromStr(ds_in.s))]
    /\ UNCHANGED ds_in /\ NotDS

\* let ds: DataSource = s.into()   with s: String
DSFromString ==
    /\ ds_in.kind = "text" /\ ds_out.via = "none"
    /\ ds_out' = [ds_out EXCEPT !.via = "String",
                                !.d = Ok(DataSourceFromString(ds_in.s))]
    /\ UNCHANGED ds_in /\ NotDS

\* DataSource::deserialize on a JSON string holding the text, or on a JSON
\* value that is no string.
DSDeserialize ==
    /\ ds_in.kind \in {"text", "json"} /\ ds_out.via = "none"
    /\ ds_out' = [ds_out EXCEPT
           !.via = "Deserialize",
           !.d = DataSourceDeserialize(
                     IF ds_in.kind = "text" THEN JsonString(ds_in.s)
                                            ELSE ds_in.j)]
    /\ UNCHANGED ds_in /\ NotDS

\* A DataSource value built by variant, as a caller holds it.
DSGiven ==
    /\ ds_in.kind = "value" /\ ds_out.via = "none"
    /\ ds_out' = [ds_out EXCEPT !.via = "value", !.d = Ok(ds_in.d)]
    /\ UNCHANGED ds_in /\ NotDS

\* ds.as_str() on the value at hand.
DSAsStr ==
    /\ ds_out.d.tag = "Ok" /\ ds_out.text = None
    /\ ds_out' = [ds_out EXCEPT !.text = Some(as_str(ds_out.d.v))]
    /\ UNCHANGED ds_in /\ NotDS

\* DataSource::from(ds.as_str()): back from the canonical string.
DSBack ==
    /\ ds_out.text # None /\ ds_out.back = None
    /\ ds_out' = [ds_out EXCEPT !.back = Some(DataSourceFromStr(ds_out.text.v))]
    /\ UNCHANGED ds_in /\ NotDS

NextDS ==
    DSFromStr \/ DSFromString \/ DSDeserialize \/ DSGiven \/ DSAsStr \/ DSBack

SpecDS == InitDS /\ [][NextDS]_vars

(***************************************************************************)
(* Claims about DataSource, checked under SpecDS                           *)
(***************************************************************************)

\* C8: for every string s, as_str(DataSource::from(s)) = s: "faceit" goes
\* to FACEIT and back, "matchmaking" to Matchmaking and back, any other
\* string to Other(s) and back.
C8_StringRoundTrip ==
    (ds_out.via \in {"&str", "String"} /\ ds_out.text # None) =>
        /\ ds_out.text.v = ds_in.s
        /\ ds_in.s = "faceit" => ds_out.d.v = FACEIT
        /\ ds_in.s = "matchmaking" => ds_out.d.v = Matchmaking
        /\ ds_in.s \notin {"faceit", "matchmaking"} => ds_out.d.v = Other(ds_in.s)

\* "matchmaking" was converted to Matchmaking and as_str gave it back.
C8_Witness ==
    /\ ds_out.via = "String"
    /\ ds_in.s = "matchmaking"
    /\ ds_out.d.v = Matchmaking
    /\ ds_out.text = Some("matchmaking")

\* C9: as_str gives a string for every DataSource value d, and
\* DataSource::from(as_str(d)) = d except for Other("faceit") and
\* Other("matchmaking"), which come back as FACEIT and Matchmaking.
C9_ValueRoundTrip ==
    /\ ds_out.via = "value" => ENABLED DSAsStr \/ ds_out.text # None
    /\ (ds_out.via = "value" /\ ds_out.text # None) => ds_out.text.v \in STRING
    /\ (ds_out.via = "value" /\ ds_out.back # None) =>
           LET d == ds_in.d
               back == ds_out.back.v
           IN  /\ d = Other("faceit") => back = FACEIT
               /\ d = Other("matchmaking") => back = Matchmaking
               /\ d \notin {Other("faceit"), Other("matchmaking")} => back = d

\* Other("faceit") went through as_str and came back as FACEIT.
C9_Witness ==
    /\ ds_out.via = "value"
    /\ ds_in.d = Other("faceit")
    /\ ds_out.back = Some(FACEIT)

\* The mapping the three conversions are said to share.
SourceMapping(s) ==
    IF s = "faceit" THEN FACEIT
    ELSE IF s = "matchmaking" THEN Matchmaking
    ELSE Other(s)

\* C10: From<&str>, From<String> and Deserialize on a JSON string all give
\* FACEIT for exactly "faceit", Matchmaking for exactly "matchmaking" and
\* Other(s), s unchanged, for every other string; none of them fails.
C10_SameMapping ==
    (ds_in.kind = "text" /\ ds_out.via \in {"&str", "String", "Deserialize"})
        => ds_out.d = Ok(SourceMapping(ds_in.s))

\* Deserialize on the JSON string "FACEIT" gave Other("FACEIT").
C10_Witness ==
    /\ ds_out.via = "Deserialize"
    /\ ds_in = [kind |-> "text", s |-> "FACEIT"]
    /\ ds_out.d = Ok(Other("FACEIT"))

(***************************************************************************)
(* The fixed-length array decode hooks (types.rs)                          *)
(***************************************************************************)

Min(S) == CHOOSE x \in S : \A y \in S : x <= y

\* u32::deserialize on a JSON value: a number from 0 to u32::MAX.
U32Deserialize(j) ==
    IF j = JsonBigNumber THEN Err(InvalidValue("u32"))
    ELSE IF j.t # "number" THEN Err(InvalidType(j.t, "u32"))
    ELSE IF j.n < 0 THEN Err(InvalidValue("u32"))
    ELSE Ok(j.n)

\* Vec::<u32>::deserialize: the elements in order, or the error of the
\* first element that does not decode.
VecU32Deserialize(j) ==
    IF j.t # "array" THEN Err(InvalidType(j.t, "a sequence"))
    ELSE LET bad == {i \in 1..Len(j.a) : U32Deserialize(j.a[i]).tag = "Err"}
         IN  IF bad # {} THEN U32Deserialize(j.a[Min(bad)])
             ELSE Ok([i \in 1..Len(j.a) |-> U32Deserialize(j.a[i]).v])

\* TeamScore::deserialize (derived): an object with the u32 fields
\* team_number and score; other fields are skipped.  Of several faults the
\* one of the first field in declaration order is reported.
TeamScoreDeserialize(j) ==
    IF j.t # "object" THEN Err(InvalidType(j.t, "struct TeamScore"))
    ELSE IF "team_number" \notin DOMAIN j.o THEN Err(MissingField("team_number"))
    ELSE IF U32Deserialize(j.o.team_number).tag = "Err"
         THEN U32Deserialize(j.o.team_number)
    ELSE IF "score" \notin DOMAIN j.o THEN Err(MissingField("score"))
    ELSE IF U32Deserialize(j.o.score).tag = "Err"
         THEN U32Deserialize(j.o.score)
    ELSE Ok([team_number |-> U32Deserialize(j.o.team_number).v,
             score |-> U32Deserialize(j.o.score).v])

\* Vec::<TeamScore>::deserialize
VecTeamScoreDeserialize(j) ==
    IF j.t # "array" THEN Err(InvalidType(j.t, "a sequence"))
    ELSE LET bad == {i \in 1..Len(j.a) : TeamScoreDeserialize(j.a[i]).tag = "Err"}
         IN  IF bad # {} THEN TeamScoreDeserialize(j.a[Min(bad)])
             ELSE Ok([i \in 1..Len(j.a) |-> TeamScoreDeserialize(j.a[i]).v])

\* The number of elements both hooks ask for.
PairLen == 2

\* [vec[0], vec[1]]: indexing past the end panics.
IndexPair(vec) ==
    IF Len(vec) < 2 THEN Panic("index out of bounds")
    ELSE Ok(<<vec[1], vec[2]>>)

\* A slip in the length test: >= where the code has ==, so that a longer
\* array is cut to its first two elements.
deserialize_score_truncating(j) ==
    LET vec == VecU32Deserialize(j)
    IN  IF vec.tag = "Err" THEN vec
        ELSE IF Len(vec.v) >= PairLen THEN IndexPair(vec.v)
        ELSE Err(InvalidLength(Len(vec.v), "exactly 2 elements"))

\* fn deserialize_score
deserialize_score(j) ==
    LET vec == VecU32Deserialize(j)
    IN  IF vec.tag = "Err" THEN vec
        ELSE IF Len(vec.v) = PairLen THEN IndexPair(vec.v)
        ELSE Err(InvalidLength(Len(vec.v), "exactly 2 elements"))

\* [iter.next().ok_or_else(..)?, iter.next().ok_or_else(..)?]
NextPair(vec) ==
    IF Len(vec) < 1 THEN Err(Custom("Missing first element"))
    ELSE IF Len(vec) < 2 THEN Err(Custom("Missing second element"))
    ELSE Ok(<<vec[1], vec[2]>>)

\* fn deserialize_team_scores
deserialize_team_scores(j) ==
    LET vec == VecTeamScoreDeserialize(j)
    IN  IF vec.tag = "Err" THEN vec
        ELSE IF Len(vec.v) = PairLen THEN NextPair(vec.v)
        ELSE Err(InvalidLength(Len(vec.v), "exactly 2 elements"))

(***************************************************************************)
(* SpecJson: the JSON values tried and the two hooks                       *)
(***************************************************************************)

\* Arrays of every length up to this are tried.
MaxArrayLen == 3

\* Elements of a score array: numbers that are a u32, and a negative
\* number, a number above u32::MAX, a string and null, which are not.
ScoreElements ==
    {JsonNumber(0), JsonNumber(13), JsonNumber(16), JsonNumber(-1),
     JsonBigNumber, JsonString("13"), JsonNull}

\* Elements of a team_scores array: two full objects, one with a field
\* more, one with a field less, one with a negative score, and null.
TeamScoreElements ==
    {JsonObject([team_number |-> JsonNumber(2), score |-> JsonNumber(13)]),
     JsonObject([team_number |-> JsonNumber(3), score |-> JsonNumber(16)]),
     JsonObject([team_number |-> JsonNumber(3), score |-> JsonNumber(7),
                 name |-> JsonString("CT")]),
     JsonObject([team_number |-> JsonNumber(2)]),
     JsonObject([team_number |-> JsonNumber(2), score |-> JsonNumber(-1)]),
     JsonNull}

ArraysOf(E) == {JsonArray(a) : a \in UNION {[1..k -> E] : k \in 0..MaxArrayLen}}

InitJson ==
    /\ json_in \in
           {[field |-> "score", j |-> j] :
                j \in ArraysOf(ScoreElements) \cup {JsonNull}}
           \cup {[field |-> "team_scores", j |-> j] :
                j \in ArraysOf(TeamScoreElements) \cup {JsonNull}}
    /\ json_out = None
    /\ value = None /\ id = None
    /\ ds_in = None /\ ds_out = None
    /\ builder = None /\ client = None /\ call = None /\ said = None

NotJson == UNCHANGED <<value, id, ds_in, ds_out, builder, client, call, said>>

\* RecentMatch.score is decoded with deserialize_score.
DecodeScore ==
    /\ json_in.field = "score" /\ json_out = None
    /\ json_out' = Some(deserialize_score(json_in.j))
    /\ UNCHANGED json_in /\ NotJson

\* MatchDetailsResponse.team_scores is decoded with deserialize_team_scores.
DecodeTeamScores ==
    /\ json_in.field = "team_scores" /\ json_out = None
    /\ json_out' = Some(deserialize_team_scores(json_in.j))
    /\ UNCHANGED json_in /\ NotJson

NextJson == DecodeScore \/ DecodeTeamScores

SpecJson == InitJson /\ [][NextJson]_vars

(***************************************************************************)
(* Claims about the decode hooks, checked under SpecJson                   *)
(***************************************************************************)

\* A hook has run on a JSON array.
ArrayDecoded == json_out # None /\ json_in.j.t = "array"

IsU32Json(e) == e.t = "number" /\ e.n >= 0

\* The element is one the field's element type accepts: a u32 for score,
\* an object with u32 fields team_number and score for team_scores.
ElementFits(field, e) ==
    IF field = "score" THEN IsU32Json(e)
    ELSE /\ e.t = "object"
         /\ {"team_number", "score"} \subseteq DOMAIN e.o
         /\ IsU32Json(e.o.team_number) /\ IsU32Json(e.o.score)

\* The value such an element stands for.
ElementValue(field, e) ==
    IF field = "score" THEN e.n
    ELSE [team_number |-> e.o.team_number.n, score |-> e.o.score.n]

LengthMismatch(r, n) == r.tag = "Err" /\ r.e.kind = "invalid length" /\ r.e.len = n

\* C5 as stated: decoding succeeds exactly when the array has length 2 and
\* then yields the two elements in order; for every other length it fails
\* with a length-mismatch error reporting the length; it never panics.
C5_AsStated ==
    ArrayDecoded =>
        LET a == json_in.j.a
            r == json_out.v
        IN  /\ r.tag # "Panic"
            /\ r.tag = "Ok" <=> Len(a) = 2
            /\ Len(a) # 2 => LengthMismatch(r, Len(a))

\* C5: for an array whose elements all fit the element type, decoding
\* succeeds exactly when the length is 2 and then yields the two elements in
\* their order, and for every other length fails with a length-mismatch
\* error reporting the length; an array with an element that does not fit
\* fails, whatever its length, with an error that is no length mismatch;
\* decoding never panics.
C5_LengthCheck ==
    ArrayDecoded =>
        LET a == json_in.j.a
            f == json_in.field
            r == json_out.v
        IN  /\ r.tag \in {"Ok", "Err"}
            /\ (\A i \in 1..Len(a) : ElementFits(f, a[i])) =>
                   /\ r.tag = "Ok" <=> Len(a) = 2
                   /\ Len(a) = 2 =>
                          r.v = <<ElementValue(f, a[1]), ElementValue(f, a[2])>>
                   /\ Len(a) # 2 => LengthMismatch(r, Len(a))
            /\ (\E i \in 1..Len(a) : ~ElementFits(f, a[i])) =>
                   r.tag = "Err" /\ r.e.kind # "invalid length"

\* A score array of three u32 numbers was refused with a length mismatch
\* reporting 3.
C5_Witness ==
    /\ ArrayDecoded
    /\ json_in.field = "score"
    /\ Len(json_in.j.a) = 3
    /\ \A i \in 1..3 : IsU32Json(json_in.j.a[i])
    /\ LengthMismatch(json_out.v, 3)

(***************************************************************************)
(* Errors (error.rs)                                                       *)
(***************************************************************************)

\* Error::Http(reqwest::Error); cause names where the transport failed.
Http(cause) == [kind |-> "Http", cause |-> cause]

\* Error::Json(serde_json::Error)
Json(e) == [kind |-> "Json", error |-> e]

\* Error::Api(status, message); the message is the sequence of the pieces
\* it is formatted from: literal text (Lit) and what a {} puts in: a string
\* (Shown), a decode error (ShownError), a status code (ShownStatus).
Lit(s) == [lit |-> s]

Shown(s) == [text |-> s]

ShownError(e) == [error |-> e]

\* The Display of a StatusCode: the code and its canonical reason.
ShownStatus(status) == [status |-> status]

Api(status, message) == [kind |-> "Api", status |-> status, message |-> message]

InvalidApiKey == [kind |-> "InvalidApiKey"]

ServerError == [kind |-> "ServerError"]

(***************************************************************************)
(* Response records (types.rs).  Of each record the model keeps the fields *)
(* that show every way a field is decoded: a required string, an optional  *)
(* field with #[serde(default)], a nested sequence, and the two fields     *)
(* with a decode hook.                                                     *)
(***************************************************************************)

\* A required String field of a JSON object o.
StringField(o, name) ==
    IF name \notin DOMAIN o THEN Err(MissingField(name))
    ELSE StringDeserialize(o[name])

\* RecentMatch::deserialize (derived): id, score (deserialize_score).
RecentMatchDeserialize(j) ==
    IF j.t # "object" THEN Err(InvalidType(j.t, "struct RecentMatch"))
    ELSE IF StringField(j.o, "id").tag = "Err" THEN StringField(j.o, "id")
    ELSE IF "score" \notin DOMAIN j.o THEN Err(MissingField("score"))
    ELSE IF deserialize_score(j.o.score).tag # "Ok" THEN deserialize_score(j.o.score)
    ELSE Ok([id |-> j.o.id.s, score |-> deserialize_score(j.o.score).v])

\* Vec::<RecentMatch>::deserialize
VecRecentMatchDeserialize(j) ==
    IF j.t # "array" THEN Err(InvalidType(j.t, "a sequence"))
    ELSE LET bad == {i \in 1..Len(j.a) : RecentMatchDeserialize(j.a[i]).tag # "Ok"}
         IN  IF bad # {} THEN RecentMatchDeserialize(j.a[Min(bad)])
             ELSE Ok([i \in 1..Len(j.a) |-> RecentMatchDeserialize(j.a[i]).v])

\* Option::<String>::deserialize with #[serde(default)]: absent or null is
\* None.
OptionStringField(o, name) ==
    IF name \notin DOMAIN o THEN Ok(None)
    ELSE IF o[name].t = "null" THEN Ok(None)
    ELSE IF o[name].t = "string" THEN Ok(Some(o[name].s))
    ELSE Err(InvalidType(o[name].t, "a string"))

\* ProfileResponse::deserialize (derived): name, id (optional),
\* recent_matches.
ProfileResponseDeserialize(j) ==
    IF j.t # "object" THEN Err(InvalidType(j.t, "struct ProfileResponse"))
    ELSE IF StringField(j.o, "name").tag = "Err" THEN StringField(j.o, "name")
    ELSE IF OptionStringField(j.o, "id").tag = "Err" THEN OptionStringField(j.o, "id")
    ELSE IF "recent_matches" \notin DOMAIN j.o THEN Err(MissingField("recent_matches"))
    ELSE IF VecRecentMatchDeserialize(j.o.recent_matches).tag # "Ok"
         THEN VecRecentMatchDeserialize(j.o.recent_matches)
    ELSE Ok([name |-> j.o.name.s,
             id |-> OptionStringField(j.o, "id").v,
             recent_matches |-> VecRecentMatchDeserialize(j.o.recent_matches).v])

\* MatchDetailsResponse::deserialize (derived): id, team_scores
\* (deserialize_team_scores).
MatchDetailsResponseDeserialize(j) ==
    IF j.t # "object" THEN Err(InvalidType(j.t, "struct MatchDetailsResponse"))
    ELSE IF StringField(j.o, "id").tag = "Err" THEN StringField(j.o, "id")
    ELSE IF "team_scores" \notin DOMAIN j.o THEN Err(MissingField("team_scores"))
    ELSE IF deserialize_team_scores(j.o.team_scores).tag # "Ok"
         THEN deserialize_team_scores(j.o.team_scores)
    ELSE Ok([id |-> j.o.id.s,
             team_scores |-> deserialize_team_scores(j.o.team_scores).v])

\* Vec::<MatchDetailsResponse>::deserialize
VecMatchDetailsDeserialize(j) ==
    IF j.t # "array" THEN Err(InvalidType(j.t, "a sequence"))
    ELSE LET bad == {i \in 1..Len(j.a) :
                         MatchDetailsResponseDeserialize(j.a[i]).tag # "Ok"}
         IN  IF bad # {} THEN MatchDetailsResponseDeserialize(j.a[Min(bad)])
             ELSE Ok([i \in 1..Len(j.a) |->
                          MatchDetailsResponseDeserialize(j.a[i]).v])

\* A response body: its text, and the JSON value the text denotes (Unparsable
\* when the text is no JSON document).
Unparsable == [t |-> "not json"]

Body(text, json) == [text |-> text, json |-> json]

\* serde_json::from_str::<T>(text) for the three result types of the
\* client's operations.
from_str(T, body) ==
    IF body.json = Unparsable THEN Err([kind |-> "syntax"])
    ELSE CASE T = "ProfileResponse" -> ProfileResponseDeserialize(body.json)
           [] T = "MatchDetailsResponse" -> MatchDetailsResponseDeserialize(body.json)
           [] T = "Vec<MatchDetailsResponse>" -> VecMatchDetailsDeserialize(body.json)

(***************************************************************************)
(* ClientBuilder and Client (client.rs)                                    *)
(***************************************************************************)

DEFAULT_BASE_URL == "https://api-public.cs-prod.leetify.com"

API_KEY_HEADER == "_leetify_key"

\* Duration::from_secs(30); durations are in seconds.
DEFAULT_TIMEOUT == 30

\* reqwest::Client::builder(): no timeout set.
ReqwestBuilder == [timeout |-> None]

\* ClientBuilder::new
ClientBuilderNew ==
    [base_url |-> None,
     api_key |-> None,
     timeout |-> Some(DEFAULT_TIMEOUT),
     client_builder |-> ReqwestBuilder]

\* ClientBuilder::base_url
SetBaseUrl(b, url) == [b EXCEPT !.base_url = Some(url)]

\* A slip in a setter: storing the key forgets the base URL.
SetApiKeyResettingUrl(b, key) ==
    [b EXCEPT !.api_key = Some(key), !.base_url = None]

\* ClientBuilder::api_key
SetApiKey(b, key) == [b EXCEPT !.api_key = Some(key)]

\* reqwest::ClientBuilder::timeout: the last duration given is the one kept.
ReqwestTimeout(rb, d) == [rb EXCEPT !.timeout = Some(d)]

\* reqwest::ClientBuilder::build: the transport with the builder's settings.
ReqwestBuild(rb) == [timeout |-> rb.timeout]

\* ClientBuilder::timeout
SetTimeout(b, d) ==
    [b EXCEPT !.timeout = Some(d),
              !.client_builder = ReqwestTimeout(@, d)]

\* ClientBuilder::client_builder
SetClientBuilder(b, rb) == [b EXCEPT !.client_builder = rb]

\* Option::unwrap_or
unwrap_or(o, default) == IF o.tag = "Some" THEN o.v ELSE default

\* A build that trusts the transport builder to carry the timeout already.
BuildClientKeepingTransport(b, built) ==
    IF ~built THEN Err(Http("build"))
    ELSE Ok([client |-> ReqwestBuild(b.client_builder),
             base_url |-> unwrap_or(b.base_url, DEFAULT_BASE_URL),
             api_key |-> b.api_key])

\* ClientBuilder::build; built says whether reqwest's build() succeeded.
BuildClient(b, built) ==
    IF ~built THEN Err(Http("build"))
    ELSE Ok([client |->
                 ReqwestBuild(ReqwestTimeout(b.client_builder,
                                  unwrap_or(b.timeout, DEFAULT_TIMEOUT))),
             base_url |-> unwrap_or(b.base_url, DEFAULT_BASE_URL),
             api_key |-> b.api_key])

\* Result::expect
expect(r, msg) == IF r.tag = "Ok" THEN r ELSE Panic(msg)

\* Client::new
ClientNew(built) ==
    expect(BuildClient(ClientBuilderNew, built), "Failed to create default client")

\* Client::with_api_key
ClientWithApiKey(key, built) ==
    expect(BuildClient(SetApiKey(ClientBuilderNew, key), built),
           "Failed to create client with API key")

\* <Client as Default>::default
ClientDefault(built) == ClientNew(built)

\* self.client.get(&url): a GET request with no query and no header yet.
Get(url) == [method |-> "GET", url |-> url, query |-> <<>>, headers |-> <<>>]

\* A slip in the query key: the Leetify id is sent under steam64_id too.
build_profile_query_params_one_key(pid) ==
    <<<<"steam64_id", to_string(pid.s)>>>>

\* Client::build_profile_query_params
build_profile_query_params(pid) ==
    IF pid.variant = "Steam64"
    THEN <<<<"steam64_id", to_string(pid.s)>>>>
    ELSE <<<<"id", to_string(pid.s)>>>>

\* A slip in the header: the key is sent only when it is not empty.
add_api_key_header_nonempty(c, request) ==
    IF c.api_key.tag = "Some" /\ c.api_key.v # ""
    THEN [request EXCEPT !.headers = @ \o <<<<API_KEY_HEADER, c.api_key.v>>>>]
    ELSE request

\* Client::add_api_key_header
add_api_key_header(c, request) ==
    IF c.api_key.tag = "Some"
    THEN [request EXCEPT !.headers = @ \o <<<<API_KEY_HEADER, c.api_key.v>>>>]
    ELSE request

\* id.into() for id: impl Into<PlayerId> (PlayerId is the enum Id): a raw
\* &str or String is classified, an Id, Steam64Id or LeetifyId is taken as
\* it is.
IntoPlayerId(arg) ==
    CASE arg.kind = "&str" -> IdFromStr(arg.s)
      [] arg.kind = "String" -> IdFromString(arg.s)
      [] arg.kind = "Id" -> arg.id

\* request.query(&query_params), left out when there are no parameters.
WithQuery(request, params) ==
    IF params # <<>> THEN [request EXCEPT !.query = @ \o params] ELSE request

\* The request of get_profile.
ProfileRequest(c, arg) ==
    add_api_key_header(c,
        WithQuery(Get(c.base_url \o "/v3/profile"),
                  build_profile_query_params(IntoPlayerId(arg))))

\* The request of get_profile_matches.
ProfileMatchesRequest(c, arg) ==
    add_api_key_header(c,
        WithQuery(Get(c.base_url \o "/v3/profile/matches"),
                  build_profile_query_params(IntoPlayerId(arg))))

\* The request of get_match_by_game_id.
MatchByGameIdRequest(c, game_id) ==
    add_api_key_header(c, Get(c.base_url \o "/v2/matches/" \o game_id))

\* data_source.into() for data_source: impl Into<DataSource>.
IntoDataSource(arg) ==
    CASE arg.kind = "&str" -> DataSourceFromStr(arg.s)
      [] arg.kind = "String" -> DataSourceFromString(arg.s)
      [] arg.kind = "DataSource" -> arg.d

\* The request of get_match_by_data_source.
MatchByDataSourceRequest(c, arg, data_source_id) ==
    add_api_key_header(c,
        Get(c.base_url \o "/v2/matches/" \o as_str(IntoDataSource(arg))
                       \o "/" \o data_source_id))

\* The request of validate_api_key.
ValidateRequest(c) ==
    add_api_key_header(c, Get(c.base_url \o "/api-key/validate"))

\* StatusCode::is_success: 200 to 299.
is_success(status) == 200 <= status /\ status <= 299

\* A slip in validate_api_key: any 2xx is taken for success.
validate_status_any_2xx(status) ==
    CASE is_success(status) -> Ok("unit")
      [] status = 401 -> Err(InvalidApiKey)
      [] status = 500 -> Err(ServerError)
      [] OTHER -> Err(Api(status, <<Lit("Unexpected status code: "),
                                    ShownStatus(status)>>))

\* The status match of validate_api_key.
validate_status(status) ==
    CASE status = 200 -> Ok("unit")
      [] status = 401 -> Err(InvalidApiKey)
      [] status = 500 -> Err(ServerError)
      [] OTHER -> Err(Api(status, <<Lit("Unexpected status code: "),
                                    ShownStatus(status)>>))

\* A slip in handle_response: the body is decoded before the status is
\* looked at, so that an error status with a decodable body succeeds.
handle_response_decode_first(T, status, text) ==
    IF text.tag = "Err" THEN Err(Http("body"))
    ELSE IF from_str(T, text.v).tag = "Ok" THEN from_str(T, text.v)
    ELSE IF ~is_success(status)
    THEN CASE status = 401 -> Err(InvalidApiKey)
           [] status = 500 -> Err(ServerError)
           [] OTHER -> Err(Api(status, <<Shown(text.v.text)>>))
    ELSE Err(Api(status, <<Lit("Failed to parse JSON response: "),
                           ShownError(from_str(T, text.v).e),
                           Lit(". Response body: "),
                           Shown(text.v.text)>>))

\* A slip in handle_response: the message of an unexpected status names
\* the status, as validate_api_key's does, and not the body.
handle_response_status_message(T, status, text) ==
    IF text.tag = "Err" THEN Err(Http("body"))
    ELSE IF ~is_success(status)
    THEN CASE status = 401 -> Err(InvalidApiKey)
           [] status = 500 -> Err(ServerError)
           [] OTHER -> Err(Api(status, <<Lit("Unexpected status code: "),
                                         ShownStatus(status)>>))
    ELSE IF from_str(T, text.v).tag = "Ok" THEN from_str(T, text.v)
    ELSE Err(Api(status, <<Lit("Failed to parse JSON response: "),
                           ShownError(from_str(T, text.v).e),
                           Lit(". Response body: "),
                           Shown(text.v.text)>>))

\* A slip in handle_response: the status is examined before the body is
\* awaited, so that 401 and 500 win over a body that cannot be read.
handle_response_status_first(T, status, text) ==
    IF status = 401 THEN Err(InvalidApiKey)
    ELSE IF status = 500 THEN Err(ServerError)
    ELSE IF text.tag = "Err" THEN Err(Http("body"))
    ELSE IF ~is_success(status)
    THEN Err(Api(status, <<Shown(text.v.text)>>))
    ELSE IF from_str(T, text.v).tag = "Ok" THEN from_str(T, text.v)
    ELSE Err(Api(status, <<Lit("Failed to parse JSON response: "),
                           ShownError(from_str(T, text.v).e),
                           Lit(". Response body: "),
                           Shown(text.v.text)>>))

\* A slip in handle_response: the decode error is passed on with ?, through
\* the From<serde_json::Error> of error.rs.
handle_response_json_error(T, status, text) ==
    IF text.tag = "Err" THEN Err(Http("body"))
    ELSE IF ~is_success(status)
    THEN CASE status = 401 -> Err(InvalidApiKey)
           [] status = 500 -> Err(ServerError)
           [] OTHER -> Err(Api(status, <<Shown(text.v.text)>>))
    ELSE IF from_str(T, text.v).tag = "Ok" THEN from_str(T, text.v)
    ELSE Err(Json(from_str(T, text.v).e))

\* Client::handle_response::<T>; text is the outcome of
\* response.text().await: Ok(body) or Err when the body could not be read.
handle_response(T, status, text) ==
    IF text.tag = "Err" THEN Err(Http("body"))
    ELSE IF ~is_success(status)
    THEN CASE status = 401 -> Err(InvalidApiKey)
           [] status = 500 -> Err(ServerError)
           [] OTHER -> Err(Api(status, <<Shown(text.v.text)>>))
    ELSE IF from_str(T, text.v).tag = "Ok" THEN from_str(T, text.v)
    ELSE Err(Api(status, <<Lit("Failed to parse JSON response: "),
                           ShownError(from_str(T, text.v).e),
                           Lit(". Response body: "),
                           Shown(text.v.text)>>))

\* The result type of each body-returning operation.
ResultType(op) ==
    CASE op = "get_profile" -> "ProfileResponse"
      [] op = "get_profile_matches" -> "Vec<MatchDetailsResponse>"
      [] op = "get_match_by_game_id" -> "MatchDetailsResponse"
      [] op = "get_match_by_data_source" -> "MatchDetailsResponse"

(***************************************************************************)
(* Spec: a client is constructed, then operations are called on it, one    *)
(* at a time; each call suspends while the request is sent and, for the    *)
(* body-returning operations, while the body is read.                      *)
(***************************************************************************)

BaseUrls == {"https://test.example.com"}

ApiKeys == {"test-key", ""}

\* Timeouts handed to ClientBuilder::timeout, in seconds.
Timeouts == {5, 60}

\* reqwest builders handed to ClientBuilder::client_builder: a fresh one
\* and one with a timeout of its own.
ReqwestBuilders == {ReqwestBuilder, [timeout |-> Some(7)]}

\* The id arguments of get_profile and get_profile_matches: raw strings
\* (classified by Id::from) and ids built by variant.
IdArgs ==
    {[kind |-> "&str", s |-> s] :
         s \in {TestSteam64, TestUuid, TestUserId, Repeat("7", 14), <<>>}}
    \cup {[kind |-> "String", s |-> s] : s \in {Repeat("7", 15)}}
    \cup {[kind |-> "Id", id |-> i] :
              i \in {Steam64Id(TestUserId), LeetifyId(TestSteam64)}}

GameIds == {"match-id-123", ""}

DataSourceArgs ==
    {[kind |-> "&str", s |-> s] : s \in {"matchmaking", "other"}}
    \cup {[kind |-> "String", s |-> s] : s \in {"faceit"}}
    \cup {[kind |-> "DataSource", d |-> d] : d \in {FACEIT, Other("faceit")}}

DataSourceIds == {"faceit-match-id"}

\* The status codes the server answers with.
Statuses == {200, 201, 204, 304, 400, 401, 404, 429, 500, 503}

TeamA == JsonObject([team_number |-> JsonNumber(2), score |-> JsonNumber(13)])

TeamB == JsonObject([team_number |-> JsonNumber(3), score |-> JsonNumber(7)])

MatchJson(teams) ==
    JsonObject([id |-> JsonString("m1"), team_scores |-> JsonArray(teams)])

ProfileJson(score) ==
    JsonObject([name |-> JsonString("player"),
                recent_matches |-> JsonArray(<<
                    JsonObject([id |-> JsonString("m1"),
                                score |-> JsonArray(score)])>>)])

\* The bodies the server answers with: a profile, a profile whose score
\* has three elements, a match, a match with three teams, a list of
\* matches, an empty list, an error object, and two texts that are no JSON.
Bodies ==
    {Body("profile", ProfileJson(<<JsonNumber(13), JsonNumber(7)>>)),
     Body("profile, 3 scores",
          ProfileJson(<<JsonNumber(13), JsonNumber(7), JsonNumber(0)>>)),
     Body("match", MatchJson(<<TeamA, TeamB>>)),
     Body("match, 3 teams", MatchJson(<<TeamA, TeamB, TeamA>>)),
     Body("[match, match]",
          JsonArray(<<MatchJson(<<TeamA, TeamB>>), MatchJson(<<TeamB, TeamA>>)>>)),
     Body("[]", JsonArray(<<>>)),
     Body("{\"error\":\"Not found\"}",
          JsonObject([error |-> JsonString("Not found")])),
     Body("<html>Bad Gateway</html>", Unparsable),
     Body("", Unparsable)}

Init ==
    /\ builder = None /\ said = None
    /\ client = None
    /\ call = None
    /\ value = None /\ id = None
    /\ ds_in = None /\ ds_out = None
    /\ json_in = None /\ json_out = None

NotClient == UNCHANGED <<value, id, ds_in, ds_out, json_in, json_out, said>>

\* Client::new()
NewClient ==
    /\ builder = None /\ client = None
    /\ \E built \in BOOLEAN : client' = ClientNew(built)
    /\ UNCHANGED <<builder, call>> /\ NotClient

\* Client::default()
NewClientDefault ==
    /\ builder = None /\ client = None
    /\ \E built \in BOOLEAN : client' = ClientDefault(built)
    /\ UNCHANGED <<builder, call>> /\ NotClient

\* Client::with_api_key(key)
NewClientWithApiKey ==
    /\ builder = None /\ client = None
    /\ \E key \in ApiKeys, built \in BOOLEAN :
           client' = ClientWithApiKey(key, built)
    /\ UNCHANGED <<builder, call>> /\ NotClient

\* Client::builder() / ClientBuilder::new()
NewBuilder ==
    /\ builder = None /\ client = None
    /\ builder' = Some(ClientBuilderNew)
    /\ UNCHANGED <<client, call>> /\ NotClient

\* builder.base_url(url)
BuilderBaseUrl ==
    /\ builder.tag = "Some"
    /\ \E url \in BaseUrls : builder' = Some(SetBaseUrl(builder.v, url))
    /\ UNCHANGED <<client, call>> /\ NotClient

\* builder.api_key(key)
BuilderApiKey ==
    /\ builder.tag = "Some"
    /\ \E key \in ApiKeys : builder' = Some(SetApiKey(builder.v, key))
    /\ UNCHANGED <<client, call>> /\ NotClient

\* builder.timeout(d)
BuilderTimeout ==
    /\ builder.tag = "Some"
    /\ \E d \in Timeouts : builder' = Some(SetTimeout(builder.v, d))
    /\ UNCHANGED <<client, call>> /\ NotClient

\* builder.client_builder(rb)
BuilderClientBuilder ==
    /\ builder.tag = "Some"
    /\ \E rb \in ReqwestBuilders : builder' = Some(SetClientBuilder(builder.v, rb))
    /\ UNCHANGED <<client, call>> /\ NotClient

\* builder.build(): the builder is consumed.
Build ==
    /\ builder.tag = "Some"
    /\ \E built \in BOOLEAN : client' = BuildClient(builder.v, built)
    /\ builder' = None
    /\ UNCHANGED call /\ NotClient

\* A call that has sent its request and awaits the response; sends counts
\* the requests the call has handed to the transport (request.send()).
Sent(op, arg, request) ==
    [op |-> op, arg |-> arg, request |-> request, pc |-> "sent",
     sends |-> 1, status |-> None, text |-> None, result |-> None]

\* What a retry would do: the request is sent once more after a transport
\* failure, and the failure is returned only the second time.
send_error_retry(c) ==
    IF c.sends < 2
    THEN [c EXCEPT !.sends = @ + 1]
    ELSE [c EXCEPT !.pc = "done", !.result = Some(Err(Http("send")))]

\* request.send().await? on Err: the operation returns Error::Http (the
\* From<reqwest::Error> of error.rs).
send_error(c) ==
    [c EXCEPT !.pc = "done", !.result = Some(Err(Http("send")))]

\* request.send().await? gave a response with this status: validate_api_key
\* matches on it and returns; the other operations enter handle_response,
\* which takes the status and awaits response.text().
respond(c, status) ==
    IF c.op = "validate_api_key"
    THEN [c EXCEPT !.pc = "done",
                   !.status = Some(status),
                   !.result = Some(validate_status(status))]
    ELSE [c EXCEPT !.pc = "reading", !.status = Some(status)]

\* response.text().await came back with text (Ok(body) or Err):
\* handle_response maps the status and it to the call's result.
text_read(c, text) ==
    [c EXCEPT !.pc = "done",
              !.text = Some(text),
              !.result = Some(handle_response(ResultType(c.op), c.status.v,
                                              text))]

\* client.get_profile(id), up to request.send().await
GetProfile ==
    /\ client.tag = "Ok" /\ call = None
    /\ \E arg \in IdArgs :
           call' = Sent("get_profile", arg, ProfileRequest(client.v, arg))
    /\ UNCHANGED <<builder, client>> /\ NotClient

\* client.get_profile_matches(id), up to request.send().await
GetProfileMatches ==
    /\ client.tag = "Ok" /\ call = None
    /\ \E arg \in IdArgs :
           call' = Sent("get_profile_matches", arg,
                        ProfileMatchesRequest(client.v, arg))
    /\ UNCHANGED <<builder, client>> /\ NotClient

\* client.get_match_by_game_id(game_id), up to request.send().await
GetMatchByGameId ==
    /\ client.tag = "Ok" /\ call = None
    /\ \E game_id \in GameIds :
           call' = Sent("get_match_by_game_id", [game_id |-> game_id],
                        MatchByGameIdRequest(client.v, game_id))
    /\ UNCHANGED <<builder, client>> /\ NotClient

\* client.get_match_by_data_source(data_source, data_source_id), up to
\* request.send().await
GetMatchByDataSource ==
    /\ client.tag = "Ok" /\ call = None
    /\ \E arg \in DataSourceArgs, dsid \in DataSourceIds :
           call' = Sent("get_match_by_data_source",
                        [data_source |-> arg, data_source_id |-> dsid],
                        MatchByDataSourceRequest(client.v, arg, dsid))
    /\ UNCHANGED <<builder, client>> /\ NotClient

\* client.validate_api_key(), up to request.send().await
ValidateApiKey ==
    /\ client.tag = "Ok" /\ call = None
    /\ call' = Sent("validate_api_key", [none |-> TRUE], ValidateRequest(client.v))
    /\ UNCHANGED <<builder, client>> /\ NotClient

\* request.send().await? fails: the call returns Error::Http.
SendFails ==
    /\ call # None /\ call.pc = "sent"
    /\ call' = send_error(call)
    /\ UNCHANGED <<builder, client>> /\ NotClient

\* request.send().await? gives a response.  validate_api_key matches on
\* its status and returns; the other operations enter handle_response,
\* which takes the status and awaits response.text().
Respond ==
    /\ call # None /\ call.pc = "sent"
    /\ \E status \in Statuses : call' = respond(call, status)
    /\ UNCHANGED <<builder, client>> /\ NotClient

\* response.text().await? fails: handle_response returns Error::Http.
TextFails ==
    /\ call # None /\ call.pc = "reading"
    /\ call' = text_read(call, Err("body"))
    /\ UNCHANGED <<builder, client>> /\ NotClient

\* response.text().await? gives the body: handle_response maps status and
\* body to the call's result.
TextRead ==
    /\ call # None /\ call.pc = "reading"
    /\ \E body \in Bodies : call' = text_read(call, Ok(body))
    /\ UNCHANGED <<builder, client>> /\ NotClient

\* The caller takes the result; the client is free for the next call.
Return ==
    /\ call # None /\ call.pc = "done"
    /\ call' = None
    /\ UNCHANGED <<builder, client>> /\ NotClient

Next ==
    \/ NewClient \/ NewClientDefault \/ NewClientWithApiKey \/ NewBuilder
    \/ BuilderBaseUrl \/ BuilderApiKey \/ BuilderTimeout \/ BuilderClientBuilder
    \/ Build
    \/ GetProfile \/ GetProfileMatches \/ GetMatchByGameId
    \/ GetMatchByDataSource \/ ValidateApiKey
    \/ SendFails \/ Respond \/ TextFails \/ TextRead \/ Return

Spec == Init /\ [][Next]_vars

(***************************************************************************)
(* Claims about the client's operations, checked under Spec                *)
(***************************************************************************)

BodyReturning ==
    {"get_profile", "get_profile_matches", "get_match_by_game_id",
     "get_match_by_data_source"}

\* A body-returning operation got a response and has its result.
Answered ==
    /\ call # None /\ call.pc = "done"
    /\ call.op \in BodyReturning
    /\ call.status # None

\* The message holds the string s, put in by a {} of the format string or
\* being the whole message.
Embeds(message, s) == \E i \in 1..Len(message) : message[i] = Shown(s)

\* The message holds the decode error e.
EmbedsError(message, e) == \E i \in 1..Len(message) : message[i] = ShownError(e)

\* The mapping of C3 from a status and a body that was read to a result.
StatusThenDecode(T, status, body, result) ==
    /\ status = 401 => result = Err(InvalidApiKey)
    /\ status = 500 => result = Err(ServerError)
    /\ (~(status \in 200..299) /\ status \notin {401, 500}) =>
           result = Err(Api(status, <<Shown(body.text)>>))
    /\ (status \in 200..299 /\ from_str(T, body).tag = "Ok") =>
           result = from_str(T, body)
    /\ (status \in 200..299 /\ from_str(T, body).tag = "Err") =>
           /\ result.tag = "Err" /\ result.e.kind = "Api"
           /\ result.e.status = status
           /\ EmbedsError(result.e.message, from_str(T, body).e)
           /\ Embeds(result.e.message, body.text)

\* C3 as stated: the result of a body-returning operation follows from the
\* response's status and then the decode outcome: 401 is InvalidApiKey,
\* 500 is ServerError, whatever became of the body.
C3_AsStated ==
    Answered =>
        /\ call.status.v = 401 => call.result.v = Err(InvalidApiKey)
        /\ call.status.v = 500 => call.result.v = Err(ServerError)
        /\ call.text # None /\ call.text.v.tag = "Ok" =>
               StatusThenDecode(ResultType(call.op), call.status.v,
                                call.text.v.v, call.result.v)

\* C3: once the body of the response has been read, the result follows
\* from the status first and the decode outcome second: 401 is
\* InvalidApiKey; 500 is ServerError; another non-2xx status is
\* ApiError(status, body text), also when the body would decode; a 2xx
\* status with a body that decodes is the decoded record; a 2xx status with
\* a body that does not decode is ApiError(status, message) whose message
\* holds the decode error and the body text.  When reading the body fails,
\* the result is Error::Http, whatever the status.
C3_StatusThenDecode ==
    Answered =>
        /\ call.text # None
        /\ call.text.v.tag = "Ok" =>
               StatusThenDecode(ResultType(call.op), call.status.v,
                                call.text.v.v, call.result.v)
        /\ call.text.v.tag = "Err" =>
               call.result.v.tag = "Err" /\ call.result.v.e.kind = "Http"

\* get_match_by_game_id got status 404 with a body that decodes as a
\* match, and returned ApiError(404, body text).
C3_Witness ==
    /\ Answered
    /\ call.op = "get_match_by_game_id"
    /\ call.status.v = 404
    /\ call.text.v.tag = "Ok"
    /\ from_str("MatchDetailsResponse", call.text.v.v).tag = "Ok"
    /\ call.result.v = Err(Api(404, <<Shown(call.text.v.v.text)>>))

\* validate_api_key got a response and has its result.
Validated ==
    /\ call # None /\ call.pc = "done"
    /\ call.op = "validate_api_key"
    /\ call.status # None

\* C4: validate_api_key maps the status alone, never reading the body:
\* exactly 200 is success (unit), 401 is InvalidApiKey, 500 is ServerError,
\* every other status, 201 and 204 too, is ApiError(status, some text).
C4_ValidateStatus ==
    Validated =>
        LET status == call.status.v
            result == call.result.v
        IN  /\ call.text = None
            /\ status = 200 <=> result = Ok("unit")
            /\ status = 401 <=> result = Err(InvalidApiKey)
            /\ status = 500 <=> result = Err(ServerError)
            /\ status \notin {200, 401, 500} =>
                   /\ result.tag = "Err" /\ result.e.kind = "Api"
                   /\ result.e.status = status
                   /\ result.e.message # <<>>

\* validate_api_key got status 204 and returned ApiError(204, ..).
C4_Witness ==
    /\ Validated
    /\ call.status.v = 204
    /\ call.result.v.tag = "Err"
    /\ call.result.v.e.kind = "Api"
    /\ call.result.v.e.status = 204

\* The values of the request's headers named name.
HeaderValues(request, name) ==
    {request.headers[i][2] : i \in {k \in 1..Len(request.headers) :
                                        request.headers[k][1] = name}}

\* C6: the request of each of the five operations carries the header
\* _leetify_key, once and with the client's key as its value, when the
\* client has a key, and no such header when it has none.
C6_KeyHeader ==
    call # None =>
        LET headers == call.request.headers
            named == {k \in 1..Len(headers) : headers[k][1] = "_leetify_key"}
        IN  IF client.v.api_key.tag = "Some"
            THEN /\ Cardinality(named) = 1
                 /\ \A k \in named : headers[k][2] = client.v.api_key.v
            ELSE named = {}

\* validate_api_key was sent by a client whose key is the empty string,
\* with the header carrying that key.
C6_Witness ==
    /\ call # None
    /\ call.op = "validate_api_key"
    /\ client.v.api_key = Some("")
    /\ HeaderValues(call.request, "_leetify_key") = {""}

\* C7: get_profile and get_profile_matches send exactly one query
\* parameter: steam64_id for the Steam64 variant, id for the Leetify
\* variant, with the id's string as its value; a raw string is sent as the
\* variant the classification gives it, so that a digit-only string shorter
\* than 15 characters goes under id.
C7_ProfileQuery ==
    (call # None /\ call.op \in {"get_profile", "get_profile_matches"}) =>
        LET query == call.request.query
            raw == call.arg.kind \in {"&str", "String"}
            pid == IF raw THEN IdFromStr(call.arg.s) ELSE call.arg.id
            text == IF raw THEN call.arg.s ELSE call.arg.id.s
        IN  /\ Len(query) = 1
            /\ pid.variant = "Steam64" => query[1] = <<"steam64_id", text>>
            /\ pid.variant = "Leetify" => query[1] = <<"id", text>>
            /\ (raw /\ Len(text) < 15 /\ \A i \in 1..Len(text) : text[i] \in AsciiDigits)
                   => query[1][1] = "id"

\* get_profile_matches was called with a raw string of 14 digits and sent
\* it under the key id.
C7_Witness ==
    /\ call # None
    /\ call.op = "get_profile_matches"
    /\ call.arg = [kind |-> "&str", s |-> Repeat("7", 14)]
    /\ call.request.query = <<<<"id", Repeat("7", 14)>>>>

\* C11: every call of one of the five operations hands exactly one request
\* to the transport; whatever the outcome (a transport failure, 401, 500,
\* another non-2xx status, a decode failure), the call ends with its
\* result and no second request.
C11_SingleRequest ==
    call # None =>
        /\ call.sends = 1
        /\ call.pc \in {"sent", "reading", "done"}
        /\ call.pc = "done" <=> call.result # None

\* A call whose request failed in the transport has returned Error::Http
\* after its one request.
C11_Witness ==
    /\ call # None
    /\ call.pc = "done"
    /\ call.status = None
    /\ call.result = Some(Err(Http("send")))
    /\ call.sends = 1

(***************************************************************************)
(* SpecBuild: a ClientBuilder from new() to build(), any setters in any    *)
(* order in between.  said remembers the argument of the last call of      *)
(* each setter and which setter was called last.                           *)
(***************************************************************************)

\* The base URLs given to base_url in SpecBuild.
BuildUrls == {"https://test.example.com", "https://other.example.com"}

NothingSaid ==
    [base_url |-> None, api_key |-> None, timeout |-> None,
     client_builder |-> None, last |-> "new"]

InitBuild ==
    /\ builder = None /\ client = None /\ said = None
    /\ call = None
    /\ value = None /\ id = None
    /\ ds_in = None /\ ds_out = None
    /\ json_in = None /\ json_out = None

NotBuild == UNCHANGED <<value, id, ds_in, ds_out, json_in, json_out, call>>

\* Client::builder() / ClientBuilder::new()
StartBuilder ==
    /\ builder = None /\ client = None
    /\ builder' = Some(ClientBuilderNew)
    /\ said' = Some(NothingSaid)
    /\ UNCHANGED client /\ NotBuild

\* builder.base_url(url)
SayBaseUrl ==
    /\ builder.tag = "Some"
    /\ \E url \in BuildUrls :
           /\ builder' = Some(SetBaseUrl(builder.v, url))
           /\ said' = Some([said.v EXCEPT !.base_url = Some(url),
                                          !.last = "base_url"])
    /\ UNCHANGED client /\ NotBuild

\* builder.api_key(key)
SayApiKey ==
    /\ builder.tag = "Some"
    /\ \E key \in ApiKeys :
           /\ builder' = Some(SetApiKey(builder.v, key))
           /\ said' = Some([said.v EXCEPT !.api_key = Some(key),
                                          !.last = "api_key"])
    /\ UNCHANGED client /\ NotBuild

\* builder.timeout(d)
SayTimeout ==
    /\ builder.tag = "Some"
    /\ \E d \in Timeouts :
           /\ builder' = Some(SetTimeout(builder.v, d))
           /\ said' = Some([said.v EXCEPT !.timeout = Some(d),
                                          !.last = "timeout"])
    /\ UNCHANGED client /\ NotBuild

\* builder.client_builder(rb)
SayClientBuilder ==
    /\ builder.tag = "Some"
    /\ \E rb \in ReqwestBuilders :
           /\ builder' = Some(SetClientBuilder(builder.v, rb))
           /\ said' = Some([said.v EXCEPT !.client_builder = Some(rb),
                                          !.last = "client_builder"])
    /\ UNCHANGED client /\ NotBuild

\* builder.build()
FinishBuilder ==
    /\ builder.tag = "Some"
    /\ \E built \in BOOLEAN : client' = BuildClient(builder.v, built)
    /\ builder' = None
    /\ UNCHANGED said /\ NotBuild

NextBuild ==
    \/ StartBuilder
    \/ SayBaseUrl
    \/ SayApiKey
    \/ SayTimeout
    \/ SayClientBuilder
    \/ FinishBuilder

SpecBuild == InitBuild /\ [][NextBuild]_vars

\* build() has run and produced a client.
Built == builder = None /\ client # None /\ client.tag = "Ok"

\* C12: the built client's request timeout is 30 seconds when timeout(d)
\* was never called and the d of the last timeout(d) call otherwise,
\* whatever the order of the calls and whatever timeout a transport
\* builder handed to client_builder carries.
C12_Timeout ==
    Built =>
        client.v.client.timeout =
            Some(IF said.v.timeout = None THEN DEFAULT_TIMEOUT
                 ELSE said.v.timeout.v)

\* timeout(5), then a transport builder with its own timeout of 7, then
\* build(): the client's timeout is 5.
C12_Witness ==
    /\ Built
    /\ said.v.timeout = Some(5)
    /\ said.v.client_builder = Some([timeout |-> Some(7)])
    /\ said.v.last = "client_builder"
    /\ client.v.client.timeout = Some(5)

\* The builder's fields hold what the setters were last given, and the
\* built client's base URL and key are those or the defaults.
C13_Fields ==
    /\ builder # None =>
           /\ builder.v.base_url = said.v.base_url
           /\ builder.v.api_key = said.v.api_key
           /\ builder.v.timeout # None
           /\ said.v.last = "new" =>
                  builder.v.base_url = None /\ builder.v.api_key = None
    /\ Built =>
           /\ client.v.base_url =
                  IF said.v.base_url = None
                  THEN "https://api-public.cs-prod.leetify.com"
                  ELSE said.v.base_url.v
           /\ client.v.api_key = said.v.api_key

\* A setter call leaves the two fields of the other setters as they were.
C13_Frame ==
    (builder # None /\ builder' # None) =>
        /\ said'.v.last = "base_url" =>
               /\ builder'.v.api_key = builder.v.api_key
               /\ builder'.v.timeout = builder.v.timeout
        /\ said'.v.last = "api_key" =>
               /\ builder'.v.base_url = builder.v.base_url
               /\ builder'.v.timeout = builder.v.timeout
        /\ said'.v.last = "timeout" =>
               /\ builder'.v.base_url = builder.v.base_url
               /\ builder'.v.api_key = builder.v.api_key

\* C13: builder configuration is last-write-wins field by field: a fresh
\* builder has no base URL, no key and a timeout; base_url, api_key and
\* timeout each change their own field only; the built client has the last
\* base URL given or the default constant, and the last key given or none.
C13_LastWriteWins == []C13_Fields /\ [][C13_Frame]_vars

\* api_key called, base_url called last with the second URL, then build():
\* the client has that URL and the key.
C13_Witness ==
    /\ Built
    /\ said.v.base_url = Some("https://other.example.com")
    /\ said.v.api_key = Some("test-key")
    /\ said.v.last = "base_url"
    /\ client.v.base_url = "https://other.example.com"
    /\ client.v.api_key = Some("test-key")

(***************************************************************************)
(* SpecConc: one shared Client and two call sites using it at once.  Every *)
(* method takes &self; call holds, per call site, the operation in         *)
(* progress there, and a step is one call site's progress to its next      *)
(* await point.                                                            *)
(***************************************************************************)

\* The call sites sharing the client.
Slots == {1, 2}

\* The clients the call sites may share: without and with an API key.
SharedClients == {ClientNew(TRUE), ClientWithApiKey("test-key", TRUE)}

\* What the call sites of SpecConc ask for.
ConcIdArgs ==
    {[kind |-> "&str", s |-> TestSteam64], [kind |-> "&str", s |-> TestUserId]}

ConcStatuses == {200, 401, 404}

ConcBodies ==
    {Body("match", MatchJson(<<TeamA, TeamB>>)),
     Body("<html>Bad Gateway</html>", Unparsable)}

\* The request an operation builds from its argument and the client's
\* configuration.
RequestOf(c, op, arg) ==
    CASE op = "get_profile" -> ProfileRequest(c, arg)
      [] op = "get_profile_matches" -> ProfileMatchesRequest(c, arg)
      [] op = "get_match_by_game_id" -> MatchByGameIdRequest(c, arg.game_id)
      [] op = "get_match_by_data_source" ->
             MatchByDataSourceRequest(c, arg.data_source, arg.data_source_id)
      [] op = "validate_api_key" -> ValidateRequest(c)

\* The calls a call site may start on client c, up to request.send().await.
ConcCalls(c) ==
    {Sent(op, arg, RequestOf(c, op, arg)) :
         op \in {"get_profile", "get_profile_matches"}, arg \in ConcIdArgs}
    \cup {Sent("get_match_by_game_id", [game_id |-> "match-id-123"],
               RequestOf(c, "get_match_by_game_id",
                         [game_id |-> "match-id-123"]))}
    \cup {Sent("get_match_by_data_source",
               [data_source |-> [kind |-> "&str", s |-> "faceit"],
                data_source_id |-> "faceit-match-id"],
               RequestOf(c, "get_match_by_data_source",
                         [data_source |-> [kind |-> "&str", s |-> "faceit"],
                          data_source_id |-> "faceit-match-id"]))}
    \cup {Sent("validate_api_key", [none |-> TRUE],
               RequestOf(c, "validate_api_key", [none |-> TRUE]))}

\* A response buffer shared by the call sites: the status that arrives is
\* taken by every call waiting for one.
respond_shared(calls, i, status) ==
    [j \in DOMAIN calls |->
        IF calls[j] # None /\ calls[j].pc = "sent"
        THEN respond(calls[j], status)
        ELSE calls[j]]

\* The response to call site i's request arrives: each call awaits the
\* future of its own send().
respond_own(calls, i, status) == [calls EXCEPT ![i] = respond(@, status)]

InitConc ==
    /\ client \in SharedClients
    /\ call = [i \in Slots |-> None]
    /\ builder = None /\ said = None
    /\ value = None /\ id = None
    /\ ds_in = None /\ ds_out = None
    /\ json_in = None /\ json_out = None

NotConc ==
    UNCHANGED <<value, id, ds_in, ds_out, json_in, json_out, builder, said,
                client>>

\* Call site i calls an operation on the shared client.
ConcStart(i) ==
    /\ call[i] = None
    /\ \E c \in ConcCalls(client.v) : call' = [call EXCEPT ![i] = c]
    /\ NotConc

\* request.send().await? fails at call site i.
ConcSendFails(i) ==
    /\ call[i] # None /\ call[i].pc = "sent"
    /\ call' = [call EXCEPT ![i] = send_error(@)]
    /\ NotConc

\* request.send().await? gives call site i its response.
ConcRespond(i) ==
    /\ call[i] # None /\ call[i].pc = "sent"
    /\ \E status \in ConcStatuses : call' = respond_own(call, i, status)
    /\ NotConc

\* response.text().await? fails at call site i.
ConcTextFails(i) ==
    /\ call[i] # None /\ call[i].pc = "reading"
    /\ call' = [call EXCEPT ![i] = text_read(@, Err("body"))]
    /\ NotConc

\* response.text().await? gives call site i the body.
ConcTextRead(i) ==
    /\ call[i] # None /\ call[i].pc = "reading"
    /\ \E body \in ConcBodies :
           call' = [call EXCEPT ![i] = text_read(@, Ok(body))]
    /\ NotConc

\* Call site i takes its result.
ConcReturn(i) ==
    /\ call[i] # None /\ call[i].pc = "done"
    /\ call' = [call EXCEPT ![i] = None]
    /\ NotConc

NextConc ==
    \E i \in Slots :
        \/ ConcStart(i)
        \/ ConcSendFails(i)
        \/ ConcRespond(i)
        \/ ConcTextFails(i)
        \/ ConcTextRead(i)
        \/ ConcReturn(i)

SpecConc == InitConc /\ [][NextConc]_vars

\* The result of an operation, from the response its call got: the send
\* failed, or a status came and, for the body-returning operations, the
\* body was read or not.
ResultOf(c) ==
    IF c.status = None THEN Err(Http("send"))
    ELSE IF c.op = "validate_api_key" THEN validate_status(c.status.v)
    ELSE handle_response(ResultType(c.op), c.status.v, c.text.v)

\* Every call's request and result are those of its own argument, the
\* client's configuration and its own response.
C14_OwnRequestAndResult ==
    \A i \in Slots :
        call[i] # None =>
            /\ call[i].request = RequestOf(client.v, call[i].op, call[i].arg)
            /\ call[i].pc = "done" => call[i].result = Some(ResultOf(call[i]))
            /\ call[i].pc # "done" => call[i].result = None

\* A step leaves the client as it is and touches one call site only.
C14_Frame ==
    /\ client' = client
    /\ \E i \in Slots : \A j \in Slots \ {i} : call'[j] = call[j]

\* C14: no operation changes the client's configuration, and under any
\* interleaving of two call sites each call's request and result come from
\* its own argument, the configuration and its own response; a step of one
\* call leaves the other call as it was.
C14_Isolation == []C14_OwnRequestAndResult /\ [][C14_Frame]_vars

\* Two calls in flight at once on a client with a key: one was told 401,
\* the other read a 200 body, and each has the result of its own response.
C14_Witness ==
    /\ client.v.api_key = Some("test-key")
    /\ call[1] # None /\ call[2] # None
    /\ call[1].op = "get_profile" /\ call[1].pc = "done"
    /\ call[1].status = Some(401) /\ call[1].result = Some(Err(InvalidApiKey))
    /\ call[2].op = "get_match_by_game_id" /\ call[2].pc = "done"
    /\ call[2].status = Some(200) /\ call[2].result.v.tag = "Ok"

(***************************************************************************)
(* The status mapping of validate_api_key beside the generic one, checked  *)
(* under Spec                                                              *)
(***************************************************************************)

\* A body-returning operation got a response, read its body, and the body
\* decodes into the operation's result type.
AnsweredDecodable ==
    /\ Answered
    /\ call.text # None /\ call.text.v.tag = "Ok"
    /\ from_str(ResultType(call.op), call.text.v.v).tag = "Ok"

\* C15 as stated: for every status, validate_api_key succeeds exactly when
\* a body-returning operation with a decodable body does, and when they
\* fail they fail with the same error, ApiError contents included.
C15_AsStated ==
    AnsweredDecodable =>
        LET generic == call.result.v
            validate == validate_status(call.status.v)
        IN  /\ generic.tag = "Ok" <=> validate.tag = "Ok"
            /\ generic.tag = "Err" =>
                   validate.tag = "Err" /\ validate.e = generic.e

\* C15: validate_api_key and a body-returning operation whose body decodes
\* agree on 200 (success), 401 (InvalidApiKey) and 500 (ServerError).  On
\* another 2xx status the body-returning operation succeeds and
\* validate_api_key fails with ApiError.  On another status both fail with
\* ApiError of that status, the one with the body as message, the other
\* with "Unexpected status code: " and the status.
C15_ValidateVsGeneric ==
    AnsweredDecodable =>
        LET status == call.status.v
            generic == call.result.v
            validate == validate_status(status)
        IN  /\ status = 200 => generic.tag = "Ok" /\ validate.tag = "Ok"
            /\ status \in {401, 500} =>
                   generic.tag = "Err" /\ validate = generic
            /\ (status \in 200..299 /\ status # 200) =>
                   /\ generic.tag = "Ok"
                   /\ validate.tag = "Err" /\ validate.e.kind = "Api"
                   /\ validate.e.status = status
            /\ (status \notin 200..299 /\ status \notin {401, 500}) =>
                   /\ generic.tag = "Err" /\ generic.e.kind = "Api"
                   /\ validate.tag = "Err" /\ validate.e.kind = "Api"
                   /\ generic.e.status = status /\ validate.e.status = status
                   /\ generic.e.message = <<Shown(call.text.v.v.text)>>
                   /\ validate.e.message =
                          <<Lit("Unexpected status code: "),
                            ShownStatus(status)>>

\* get_profile answered 201 with a profile: the call succeeds, and
\* validate_api_key answered 201 fails.
C15_Witness ==
    /\ AnsweredDecodable
    /\ call.op = "get_profile" /\ call.status.v = 201
    /\ call.result.v.tag = "Ok"
    /\ validate_status(201).tag = "Err"

(***************************************************************************)
(* The errors the operations return, checked under Spec                    *)
(***************************************************************************)

\* An operation returned Error::Api.
ApiErrorReturned ==
    /\ call # None /\ call.pc = "done"
    /\ call.result.v.tag = "Err" /\ call.result.v.e.kind = "Api"

\* The message has a piece filled from the response body or from a decode
\* error.
EmbedsBodyOrDecodeError(message) ==
    \E i \in 1..Len(message) :
        "text" \in DOMAIN message[i] \/ "error" \in DOMAIN message[i]

\* C16 as stated: every ApiError an operation returns, validate_api_key
\* included, carries the HTTP status and a message that embeds the raw
\* response body or a decode-failure description.
C16_AsStated ==
    ApiErrorReturned =>
        /\ call.result.v.e.status = call.status.v
        /\ EmbedsBodyOrDecodeError(call.result.v.e.message)

\* C16: every ApiError carries the HTTP status of the response.  The
\* message of a body-returning operation embeds the raw response body, and
\* the decode error too when a 2xx body did not decode.  The message of
\* validate_api_key, which does not read the body, is "Unexpected status
\* code: " and the status, and embeds neither.
C16_ApiErrorMessage ==
    ApiErrorReturned =>
        LET e == call.result.v.e IN
        /\ e.status = call.status.v
        /\ call.op \in BodyReturning =>
               /\ Embeds(e.message, call.text.v.v.text)
               /\ is_success(e.status) =>
                      EmbedsError(e.message,
                          from_str(ResultType(call.op), call.text.v.v).e)
        /\ call.op = "validate_api_key" =>
               /\ e.message = <<Lit("Unexpected status code: "),
                                ShownStatus(e.status)>>
               /\ ~EmbedsBodyOrDecodeError(e.message)

\* validate_api_key answered 404: ApiError(404) whose message names the
\* status only.
C16_Witness ==
    /\ ApiErrorReturned
    /\ call.op = "validate_api_key" /\ call.status = Some(404)
    /\ call.result.v.e.status = 404
    /\ ~EmbedsBodyOrDecodeError(call.result.v.e.message)

\* C17: no operation panics, construction included: when building the
\* transport fails, Client::new, Client::with_api_key and Client::default
\* report an error and do not abort.
C17_NoPanic == client.tag # "Panic"

\* The call has returned.
Returned == call # None /\ call.pc = "done"

\* C18: a transport failure is returned as Error::Http, when sending the
\* request and when reading the response body; a body-returning operation
\* whose body cannot be read returns Error::Http also on 401 and 500;
\* validate_api_key reads no body and maps 401 and 500 whatever the body.
C18_TransportFailure ==
    Returned =>
        LET result == call.result.v IN
        /\ call.status = None => result = Err(Http("send"))
        /\ (call.text # None /\ call.text.v.tag = "Err") =>
               /\ call.op \in BodyReturning
               /\ result = Err(Http("body"))
        /\ (result.tag = "Err" /\ result.e.kind = "Http") =>
               \/ call.status = None
               \/ call.text # None /\ call.text.v.tag = "Err"
        /\ call.op = "validate_api_key" =>
               /\ call.text = None
               /\ call.status = Some(401) => result = Err(InvalidApiKey)
               /\ call.status = Some(500) => result = Err(ServerError)

\* get_profile answered 401 with a body that cannot be read: Error::Http.
C18_Witness ==
    /\ Returned
    /\ call.op = "get_profile" /\ call.status = Some(401)
    /\ call.text = Some(Err("body"))
    /\ call.result = Some(Err(Http("body")))

\* The kinds of error.rs the operations return.
ReturnedKinds == {"Http", "Api", "InvalidApiKey", "ServerError"}

\* C19: an operation that fails returns Http, Api, InvalidApiKey or
\* ServerError: never MissingParameter, InvalidGameId or InvalidDataSource,
\* whatever the argument, and never Json: a 2xx body that is no JSON is
\* returned as ApiError, as a body of the wrong shape is.
C19_ErrorKinds ==
    (Returned /\ call.result.v.tag = "Err") =>
        /\ call.result.v.e.kind \in ReturnedKinds
        /\ call.result.v.e.kind \notin
               {"Json", "MissingParameter", "InvalidGameId",
                "InvalidDataSource"}
        /\ (/\ call.status # None /\ is_success(call.status.v)
            /\ call.text # None /\ call.text.v.tag = "Ok") =>
               call.result.v.e.kind = "Api"

\* get_match_by_game_id with an empty game id, answered 200 with a body
\* that is no JSON: ApiError.
C19_Witness ==
    /\ Returned
    /\ call.op = "get_match_by_game_id" /\ call.arg.game_id = ""
    /\ call.status = Some(200)
    /\ call.text # None /\ call.text.v.tag = "Ok"
    /\ call.text.v.v.json = Unparsable
    /\ call.result.v.tag = "Err" /\ call.result.v.e.kind = "Api"

=============================================================================
